---- MODULE Spec2Model ----
(***************************************************************************)
(* Residue-pattern gadget of examples/src/residue_pattern.rs:             *)
(*   - the pure reference fold residue_pattern,                            *)
(*   - the five gates registered by ResiduePatternConfig::configure,       *)
(*   - the witness assignment ResiduePatternChip::assign / assign_value.   *)
(*                                                                         *)
(* The field Fr is modelled by small odd prime fields (the variable        *)
(* modulus); the 64 of `0u64..64` and of the u64 accumulator is scaled to  *)
(* U64Bits.  The chip's length ranges over 1..U64Bits, the lengths for     *)
(* which the u64 accumulator cannot overflow.                              *)
(***************************************************************************)
EXTENDS Integers, Sequences, FiniteSets, TLC

\* ------------------------------------------------------------------ bounds
MaxVals == 2          \* longest input batch `values`
U64Bits == 3          \* stands for 64: the window of residue_pattern, the width of u64

Primes == {5, 7}                \* fields of the assignment specifications
RefPrimes == {3, 5, 7, 11, 13}  \* fields of the reference-function specification
NumRows == MaxVals * U64Bits + 1  \* rows of the table; at least one is never written

VARIABLES
    modulus,     \* the prime of the field F
    nonresidue,  \* ResiduePatternChip.nonresidue (also the gates' constant)
    length,      \* ResiduePatternChip.length
    values,      \* the batch handed to assign
    cells,       \* the row table: row -> column -> field element
    assigned,    \* the cells and selectors written so far, as <<column, row>>
    patterns,    \* assign: `patterns`
    offset,      \* assign: `offset`, the start of the current block
    row_offset,  \* assign_value: the shadowing `offset`, the row being written
    index,       \* assign_value: loop variable `index`
    pattern,     \* assign_value: `pattern`
    status,      \* where the pass is: idle, running, ok, err, panic, ...
    result,      \* what assign returned: {Ok(patterns)} or {Err(e)}; {} before
    rejected,    \* the write the substrate rejected, as {<<column, row>>}; {} if none
    prev,        \* the table and result of an earlier successful pass; {} if none
    ref          \* the reference fold in progress: {[x, i, acc]}; {} if none

vars == <<modulus, nonresidue, length, values, cells, assigned, patterns, offset,
          row_offset, index, pattern, status, result, rejected, prev, ref>>

\* ------------------------------------------------------------- the field F
FieldElems == 0 .. (modulus - 1)

fe_add(a, b) == (a + b) % modulus
fe_sub(a, b) == (a - b + modulus) % modulus
fe_mul(a, b) == (a * b) % modulus
fe_square(a) == (a * a) % modulus
fe_from_u64(n) == n % modulus

\* a sqrt that returns the other root of a square once a pass has been made
sqrt_either_root(x) ==
    LET rs == {r \in 0 .. (modulus - 1) : (r * r) % modulus = x}
    IN  IF rs = {} THEN {}
        ELSE IF prev = {} THEN {CHOOSE r \in rs : \A t \in rs : r <= t}
        ELSE {CHOOSE r \in rs : \A t \in rs : r >= t}

\* Field::sqrt: CtOption<F>, Some(root) or None; an Option is a set of at most
\* one element.  Of the two roots of a square the least is taken.
Roots(x) == {r \in FieldElems : fe_square(r) = x}

sqrt(x) == IF Roots(x) = {} THEN {}
           ELSE {CHOOSE r \in Roots(x) : \A s \in Roots(x) : r <= s}

is_some(opt) == opt # {}

unwrap(opt) == CHOOSE r \in opt : TRUE

u64_from_bool(b) == IF b THEN 1 ELSE 0

\* ------------------------------------------------ the reference function
\* a fold that shifts the new bit instead of the accumulator
fold_step_shifts_bit(acc, is_residue) == acc + 2 * u64_from_bool(is_residue)

\* .fold(0, |pattern, is_residue| 2 * pattern + u64::from(is_residue))
fold_step(acc, is_residue) == 2 * acc + u64_from_bool(is_residue)

\* a map that multiplies x by i instead of adding i
map_step_times(x, i) == is_some(sqrt(fe_mul(x, fe_from_u64(i))))

\* .map(|i| Option::<Fr>::from((x + Fr::from(i)).sqrt()).is_some())
map_step(x, i) == is_some(sqrt(fe_add(x, fe_from_u64(i))))

RECURSIVE fold_upto(_, _)
fold_upto(x, n) == IF n = 0 THEN 0
                   ELSE fold_step(fold_upto(x, n - 1), map_step(x, n - 1))

\* residue_pattern(x): the fold over the fixed range 0u64..64
residue_pattern(x) == fold_upto(x, U64Bits)

\* ------------------------------------------------------------ the row table
\* ResiduePatternConfig: two selectors, one fixed column, four advice columns.
\* A selector is 1 where enabled; a cell never written holds 0.
Columns == {"always_enabled", "index_is_nonzero", "index",
            "value", "is_residue", "pattern", "square_root"}

Rows == 0 .. (NumRows - 1)

EmptyRow == [col \in Columns |-> 0]

EmptyTable == [r \in Rows |-> EmptyRow]

\* Rotation::prev(): the row before, the first row wrapping to the last
prev_row(r) == (r + NumRows - 1) % NumRows

\* ---------------------------------------------------------------- the gates
\* a continuity gate multiplied by the always_enabled selector, not by index
gate_value_by_selector(c, r) ==
    (c[r].always_enabled * ((c[r].value - c[prev_row(r)].value + modulus) % modulus))
        % modulus

\* "value does not change if index is non-zero"
gate_value(c, r) ==
    fe_mul(c[r].index, fe_sub(c[r].value, c[prev_row(r)].value))

\* "is_residue is binary"
gate_binary(c, r) ==
    fe_mul(fe_mul(c[r].always_enabled, c[r].is_residue),
           fe_sub(fe_from_u64(1), c[r].is_residue))

\* "square_root^2 = value + index if is_residue"
gate_residue(c, r) ==
    fe_mul(fe_mul(c[r].always_enabled, c[r].is_residue),
           fe_sub(fe_square(c[r].square_root), fe_add(c[r].value, c[r].index)))

\* "square_root^2 = nonresidue * (value + index) if not is_residue"
gate_nonresidue(c, r) ==
    fe_mul(fe_mul(c[r].always_enabled, fe_sub(fe_from_u64(1), c[r].is_residue)),
           fe_sub(fe_square(c[r].square_root),
                  fe_mul(nonresidue, fe_add(c[r].value, c[r].index))))

\* "current pattern = is_residue + 2 * previous pattern"
gate_pattern(c, r) ==
    fe_mul(c[r].index_is_nonzero,
           fe_sub(fe_sub(c[r].pattern, fe_mul(fe_from_u64(2), c[prev_row(r)].pattern)),
                  c[r].is_residue))

\* the five gates of configure, all zero on row r
gates_zero(c, r) ==
    /\ gate_value(c, r) = 0
    /\ gate_binary(c, r) = 0
    /\ gate_residue(c, r) = 0
    /\ gate_nonresidue(c, r) = 0
    /\ gate_pattern(c, r) = 0

\* what MockProver::verify checks: every gate on every row
verify(c) == \A r \in Rows : gates_zero(c, r)

\* ------------------------------------------------------------ assign_value
\* the value of the block being written
cur_value == values[Len(patterns) + 1]

\* (value + index), with index = F::from(index)
candidate(value, idx) == fe_add(value, fe_from_u64(idx))

\* the first sqrt of the row: Option::<F>::from((value + index).sqrt())
first_root(value, idx) == sqrt(candidate(value, idx))

\* a second square root that leaves the nonresidue factor out
second_root_without_factor(value, idx) == sqrt(candidate(value, idx))

\* the second: Option::<F>::from((self.nonresidue * (value + index)).sqrt())
second_root(value, idx) == sqrt(fe_mul(nonresidue, candidate(value, idx)))

\* the `if let Some(square_root) = ...` of assign_value: Some(<<is_residue,
\* square_root>>), or None where the unwrap() panics
witness(value, idx) ==
    IF is_some(first_root(value, idx))
    THEN {<<TRUE, unwrap(first_root(value, idx))>>}
    ELSE IF is_some(second_root(value, idx))
         THEN {<<FALSE, unwrap(second_root(value, idx))>>}
         ELSE {}

\* an update that carries a one in with every bit
pattern_update_carries_one(acc, is_residue) == 2 * acc + 1 + u64_from_bool(is_residue)

\* an update that does not double the accumulator
pattern_update_no_shift(acc, is_residue) == acc + u64_from_bool(is_residue)

\* pattern = 2 * pattern + u64::from(is_residue)
pattern_update(acc, is_residue) == 2 * acc + u64_from_bool(is_residue)

\* an iteration with the test of index inverted: index_is_nonzero is enabled
\* on the first row of a block only
writes_before_inverted(value, idx) ==
    <<  <<"always_enabled", 1>>  >>
    \o (IF idx = 0 THEN <<  <<"index_is_nonzero", 1>>  >> ELSE << >>)
    \o <<  <<"index", fe_from_u64(idx)>>, <<"value", value>>  >>

\* an iteration that enables index_is_nonzero on the first row of a block too
writes_before_every_row(value, idx) ==
    <<  <<"always_enabled", 1>>, <<"index_is_nonzero", 1>>,
        <<"index", fe_from_u64(idx)>>, <<"value", value>>  >>

\* the selector enables and cell writes of one loop iteration before the
\* witness is computed, in program order, as <<column, value>>
writes_before(value, idx) ==
    <<  <<"always_enabled", 1>>  >>
    \o (IF idx # 0 THEN <<  <<"index_is_nonzero", 1>>  >> ELSE << >>)
    \o <<  <<"index", fe_from_u64(idx)>>, <<"value", value>>  >>

\* writes after the witness that put the accumulator of the row before into
\* the pattern cell
writes_after_stale_pattern(acc, w) ==
    <<  <<"is_residue", IF w[1] THEN fe_from_u64(1) ELSE 0>>,
        <<"pattern", fe_from_u64(acc)>>,
        <<"square_root", w[2]>>  >>

\* ... and after it
writes_after(acc, w) ==
    <<  <<"is_residue", IF w[1] THEN fe_from_u64(1) ELSE 0>>,
        <<"pattern", fe_from_u64(pattern_update(acc, w[1]))>>,
        <<"square_root", w[2]>>  >>

\* most selector enables and cell writes in one iteration
MaxWrites == Cardinality(Columns)

\* an iteration that drops the Result of a rejected write and goes on
row_outcome_dropping_error(value, idx, acc, rej) ==
    LET before == writes_before(value, idx)
        w      == witness(value, idx)
        all    == IF w = {} THEN before
                  ELSE before \o writes_after(acc, unwrap(w))
    IN  [kind |-> IF w = {} THEN "panic" ELSE "ok", ws |-> all,
         attempted |-> Len(all), written |-> (1 .. Len(all)) \ {rej}]

\* One iteration of the loop of assign_value, the substrate rejecting the
\* rej-th write it is asked for (rej = 0: none).  Every `?` returns the error
\* at once; the unwrap() panics after the writes before it.
\*   kind: ok, err or panic; ws: the writes in program order (those after the
\*   witness only if there is one); attempted: how many the substrate was asked
\*   for; written: which of them it took.
row_outcome(value, idx, acc, rej) ==
    LET before == writes_before(value, idx)
        w      == witness(value, idx)
        all    == IF w = {} THEN before
                  ELSE before \o writes_after(acc, unwrap(w))
    IN  IF rej \in 1 .. Len(all)
        THEN [kind |-> "err", ws |-> all, attempted |-> rej,
              written |-> 1 .. (rej - 1)]
        ELSE IF w = {}
        THEN [kind |-> "panic", ws |-> all, attempted |-> Len(all),
              written |-> 1 .. Len(all)]
        ELSE [kind |-> "ok", ws |-> all, attempted |-> Len(all),
              written |-> 1 .. Len(all)]

\* the table after the writes o.written of o.ws on row r
write_row(c, r, o) ==
    [c EXCEPT ![r] = [col \in Columns |->
        IF \E j \in o.written : o.ws[j][1] = col
        THEN LET j == CHOOSE i \in o.written : o.ws[i][1] = col IN o.ws[j][2]
        ELSE c[r][col]]]

\* the cells and selectors those writes touch
touched(r, o) == {<<o.ws[j][1], r>> : j \in o.written}

\* the write the substrate rejected in this iteration, if it was asked for it
rejected_now(r, o, rej) ==
    IF rej \in 1 .. o.attempted THEN {<<o.ws[rej][1], r>>} ELSE {}

Ok(ps) == [ok |-> TRUE, patterns |-> ps]

Err(e) == [ok |-> FALSE, error |-> e]

\* ------------------------------------------------------------------- Init
Init ==
    /\ modulus \in Primes
    /\ nonresidue \in 0 .. (modulus - 1)
    /\ length \in 1 .. U64Bits
    /\ values \in UNION {[1 .. n -> 0 .. (modulus - 1)] : n \in 0 .. MaxVals}
    /\ cells = EmptyTable
    /\ assigned = {}
    /\ patterns = << >>
    /\ offset = 0
    /\ row_offset = 0
    /\ index = 0
    /\ pattern = 0
    /\ status = "idle"
    /\ result = {}
    /\ rejected = {}
    /\ prev = {}
    /\ ref = {}

\* ----------------------------------------------------------------- assign
\* assign is entered: patterns = vec![], offset = 0; the first assign_value
\* starts with pattern = 0 at that offset
Assign ==
    /\ status = "idle"
    /\ status' = "running"
    /\ patterns' = << >>
    /\ offset' = 0
    /\ row_offset' = 0
    /\ index' = 0
    /\ pattern' = 0
    /\ UNCHANGED <<modulus, nonresidue, length, values, cells, assigned,
                   result, rejected, prev, ref>>

\* a block offset that advances by one row, not by a block
advance_offset_by_one(off) == off + 1

\* offset += self.length
advance_offset(off) == off + length

\* a row offset that stays where it is
next_row_stays(r) == r

\* offset += 1
next_row(r) == r + 1

InLoop == status = "running" /\ Len(patterns) < Len(values)

\* One iteration of assign_value's loop runs to its end.  After the last
\* index the block's pattern is pushed, offset advances by length and the
\* next assign_value starts.
AssignRowOk ==
    /\ InLoop
    /\ \E rej \in 0 .. MaxWrites :
        LET o == row_outcome(cur_value, index, pattern, rej)
            acc == pattern_update(pattern, unwrap(witness(cur_value, index))[1])
        IN  /\ o.kind = "ok"
            /\ cells' = write_row(cells, row_offset, o)
            /\ assigned' = assigned \cup touched(row_offset, o)
            /\ rejected' = rejected \cup rejected_now(row_offset, o, rej)
            /\ IF index + 1 < length
               THEN /\ index' = index + 1
                    /\ row_offset' = next_row(row_offset)
                    /\ pattern' = acc
                    /\ UNCHANGED <<patterns, offset>>
               ELSE /\ patterns' = Append(patterns, acc)
                    /\ offset' = advance_offset(offset)
                    /\ row_offset' = advance_offset(offset)
                    /\ index' = 0
                    /\ pattern' = 0
    /\ UNCHANGED <<modulus, nonresidue, length, values, status, result, prev, ref>>

\* The substrate rejects a selector enable or a cell write: the `?` returns
\* the error from assign_value, from the closure and from assign.
AssignRowRejected ==
    /\ InLoop
    /\ \E rej \in 0 .. MaxWrites :
        LET o == row_outcome(cur_value, index, pattern, rej)
        IN  /\ o.kind = "err"
            /\ cells' = write_row(cells, row_offset, o)
            /\ assigned' = assigned \cup touched(row_offset, o)
            /\ rejected' = rejected \cup rejected_now(row_offset, o, rej)
            /\ result' = {Err(<<o.ws[o.attempted][1], row_offset>>)}
    /\ status' = "err"
    /\ UNCHANGED <<modulus, nonresidue, length, values, patterns, offset,
                   row_offset, index, pattern, prev, ref>>

\* Neither square root exists: unwrap() panics, after the row's selectors,
\* index and value were written.
AssignRowPanic ==
    /\ InLoop
    /\ \E rej \in 0 .. MaxWrites :
        LET o == row_outcome(cur_value, index, pattern, rej)
        IN  /\ o.kind = "panic"
            /\ cells' = write_row(cells, row_offset, o)
            /\ assigned' = assigned \cup touched(row_offset, o)
            /\ rejected' = rejected \cup rejected_now(row_offset, o, rej)
    /\ status' = "panic"
    /\ UNCHANGED <<modulus, nonresidue, length, values, patterns, offset,
                   row_offset, index, pattern, result, prev, ref>>

\* values.iter() is exhausted: Ok(patterns)
AssignReturn ==
    /\ status = "running"
    /\ Len(patterns) = Len(values)
    /\ status' = "ok"
    /\ result' = {Ok(patterns)}
    /\ UNCHANGED <<modulus, nonresidue, length, values, cells, assigned, patterns,
                   offset, row_offset, index, pattern, rejected, prev, ref>>

Next ==
    \/ Assign
    \/ AssignRowOk
    \/ AssignRowRejected
    \/ AssignRowPanic
    \/ AssignReturn

Spec == Init /\ [][Next]_vars

\* ------------------------------------------------- a second pass (rerun)
\* The same chip assigns the same values once more into a fresh region (a
\* second synthesis of the same circuit); the first pass is kept in prev.
Rerun ==
    /\ status = "ok"
    /\ prev = {}
    /\ prev' = {[cells |-> cells, assigned |-> assigned, result |-> result]}
    /\ cells' = EmptyTable
    /\ assigned' = {}
    /\ result' = {}
    /\ status' = "idle"
    /\ UNCHANGED <<modulus, nonresidue, length, values, patterns, offset,
                   row_offset, index, pattern, rejected, ref>>

NextTwoRuns ==
    \/ Assign
    \/ AssignRowOk
    \/ AssignRowRejected
    \/ AssignRowPanic
    \/ AssignReturn
    \/ Rerun

SpecTwoRuns == Init /\ [][NextTwoRuns]_vars

\* --------------------------------------------- tampering with the table
\* the rows assign wrote in a pass that returned Ok
written_rows == 0 .. (Len(values) * length - 1)

\* is_residue flipped, 0 to 1 or 1 to 0, in row r; every other cell kept
flip_is_residue(c, r) ==
    [c EXCEPT ![r].is_residue = fe_sub(fe_from_u64(1), c[r].is_residue)]

\* After a pass that returned Ok, one is_residue cell of the table is flipped
\* before the table is verified against the gates of configure.
Tamper ==
    /\ status = "ok"
    /\ \E r \in written_rows : cells' = flip_is_residue(cells, r)
    /\ status' = "tampered"
    /\ UNCHANGED <<modulus, nonresidue, length, values, assigned, patterns, offset,
                   row_offset, index, pattern, result, rejected, prev, ref>>

NextTamper ==
    \/ Assign
    \/ AssignRowOk
    \/ AssignRowRejected
    \/ AssignRowPanic
    \/ AssignReturn
    \/ Tamper

SpecTamper == Init /\ [][NextTamper]_vars

\* ------------------------------------------- any prover against the gates
\* The fixed column and the selectors of one block are laid out as
\* assign_value lays them out; the four advice cells of each row are whatever
\* a prover likes, as long as the five gates of configure are zero on the row.
has_root(x) == \E r \in FieldElems : fe_square(r) = x

prover_row(c, r, v, b, p, s) ==
    [c EXCEPT ![r] = [always_enabled |-> 1,
                      index_is_nonzero |-> IF r % length # 0 THEN 1 ELSE 0,
                      index |-> fe_from_u64(r % length),
                      value |-> v, is_residue |-> b, pattern |-> p,
                      square_root |-> s]]

InitProver ==
    /\ modulus \in Primes
    /\ nonresidue \in {n \in 0 .. (modulus - 1) : ~has_root(n)}
    /\ length \in 1 .. U64Bits
    /\ values = << >>
    /\ cells = EmptyTable
    /\ assigned = {}
    /\ patterns = << >>
    /\ offset = 0
    /\ row_offset = 0
    /\ index = 0
    /\ pattern = 0
    /\ status = "proving"
    /\ result = {}
    /\ rejected = {}
    /\ prev = {}
    /\ ref = {}

ProverRow ==
    /\ status = "proving"
    /\ row_offset < length
    /\ \E v \in FieldElems, b \in FieldElems, p \in FieldElems, s \in FieldElems :
        /\ gates_zero(prover_row(cells, row_offset, v, b, p, s), row_offset)
        /\ cells' = prover_row(cells, row_offset, v, b, p, s)
    /\ row_offset' = row_offset + 1
    /\ UNCHANGED <<modulus, nonresidue, length, values, assigned, patterns, offset,
                   index, pattern, status, result, rejected, prev, ref>>

NextProver == ProverRow

SpecProver == InitProver /\ [][NextProver]_vars

\* ------------------------------------ the value column against gate 1
\* The index column and the selectors of len(values) blocks are laid out as
\* assign_value lays them out; the value cell of each row is whatever makes
\* the gate "value does not change if index is non-zero" zero on the row.
InitValueGate ==
    /\ modulus \in Primes
    /\ nonresidue \in {n \in 0 .. (modulus - 1) : ~has_root(n)}
    /\ length \in 1 .. U64Bits
    /\ values = << >>
    /\ cells = EmptyTable
    /\ assigned = {}
    /\ patterns = << >>
    /\ offset = 0
    /\ row_offset = 0
    /\ index = 0
    /\ pattern = 0
    /\ status = "value_gate"
    /\ result = {}
    /\ rejected = {}
    /\ prev = {}
    /\ ref = {}

ValueRow ==
    /\ status = "value_gate"
    /\ row_offset < MaxVals * length
    /\ \E v \in FieldElems :
        /\ gate_value(prover_row(cells, row_offset, v, 0, 0, 0), row_offset) = 0
        /\ cells' = prover_row(cells, row_offset, v, 0, 0, 0)
    /\ row_offset' = row_offset + 1
    /\ UNCHANGED <<modulus, nonresidue, length, values, assigned, patterns, offset,
                   index, pattern, status, result, rejected, prev, ref>>

NextValueGate == ValueRow

SpecValueGate == InitValueGate /\ [][NextValueGate]_vars

\* --------------------------------------------- the reference fold alone
InitRef ==
    /\ modulus \in RefPrimes
    /\ ref \in {{[x |-> x, i |-> 0, acc |-> 0]} : x \in 0 .. (modulus - 1)}
    /\ nonresidue = 0
    /\ length = U64Bits
    /\ values = << >>
    /\ cells = EmptyTable
    /\ assigned = {}
    /\ patterns = << >>
    /\ offset = 0
    /\ row_offset = 0
    /\ index = 0
    /\ pattern = 0
    /\ status = "reference"
    /\ result = {}
    /\ rejected = {}
    /\ prev = {}

\* one element of (0u64..64) goes through the map and the fold
RefStep ==
    /\ status = "reference"
    /\ \E f \in ref :
        /\ f.i < U64Bits
        /\ ref' = {[x |-> f.x, i |-> f.i + 1,
                    acc |-> fold_step(f.acc, map_step(f.x, f.i))]}
    /\ UNCHANGED <<modulus, nonresidue, length, values, cells, assigned, patterns,
                   offset, row_offset, index, pattern, status, result, rejected, prev>>

NextRef == RefStep

SpecRef == InitRef /\ [][NextRef]_vars

\* ================================================================ claims
\* bit w (of weight 2^w) of the unsigned integer n
bit(n, w) == (n \div (2 ^ w)) % 2

genuine == ~has_root(nonresidue)

\* the position of a column's write in one iteration of assign_value
program_order(col) ==
    CASE col = "always_enabled"   -> 1
      [] col = "index_is_nonzero" -> 2
      [] col = "index"            -> 3
      [] col = "value"            -> 4
      [] col = "is_residue"       -> 5
      [] col = "pattern"          -> 6
      [] col = "square_root"      -> 7

C2_MsbFirst ==
    \A f \in ref :
        /\ f.acc = fold_upto(f.x, f.i)
        /\ f.i = 0 => f.acc = 0
        /\ f.i = U64Bits =>
            /\ f.acc = residue_pattern(f.x)
            /\ f.acc < 2 ^ U64Bits
            /\ \A i \in 0 .. (U64Bits - 1) :
                (bit(f.acc, U64Bits - 1 - i) = 1)
                    <=> has_root(fe_add(f.x, fe_from_u64(i)))

C2_Witness ==
    \E f \in ref :
        /\ f.i = U64Bits
        /\ has_root(f.x)
        /\ ~has_root(fe_add(f.x, fe_from_u64(U64Bits - 1)))
        /\ bit(f.acc, U64Bits - 1) = 1
        /\ bit(f.acc, 0) = 0

\* C3: with a genuine nonresidue, the table a pass that returned Ok has
\* written makes the five gates zero on every row of the table: first rows
\* of blocks, block boundaries and rows never written included.
C3_Complete == (status = "ok" /\ genuine) => verify(cells)

C3_Witness ==
    /\ status = "ok"
    /\ genuine
    /\ Len(values) = 2
    /\ length >= 2
    /\ cells[length - 1].pattern # 0
    /\ \E r \in written_rows : cells[r].is_residue = 0
    /\ \E r \in written_rows : cells[r].is_residue = 1
    /\ \E r \in Rows : r \notin written_rows
    /\ verify(cells)

\* C4 as stated, for length = 64: an assignment of the four advice columns
\* of a block that makes all five gates zero on every row has, in the last
\* row of the block, the pattern residue_pattern(value).
C4_Sound ==
    (status = "proving" /\ row_offset = length /\ length = U64Bits /\ verify(cells))
        => cells[length - 1].pattern
             = fe_from_u64(residue_pattern(cells[length - 1].value))

\* C5 as stated: with a genuine nonresidue, on every row where the binary
\* flag gate and the two square checks are zero, is_residue = 1 exactly when
\* value + index has a square root.
C5_FlagSound ==
    status = "proving" =>
        \A r \in 0 .. (row_offset - 1) :
            (/\ gate_binary(cells, r) = 0
             /\ gate_residue(cells, r) = 0
             /\ gate_nonresidue(cells, r) = 0)
            => ((cells[r].is_residue = 1)
                    <=> has_root(fe_add(cells[r].value, cells[r].index)))

\* C6 as stated: with a genuine nonresidue, the table of a pass that
\* returned Ok, with one is_residue cell flipped, has a gate that is not zero
\* on some row.
C6_TamperDetected == (status = "tampered" /\ genuine) => ~verify(cells)

\* C7 as stated: when the nonresidue has a square root and the pass reaches
\* a row whose value + index has none (the row's value cell is written just
\* before the square roots are taken), the pass aborts there and writes no
\* is_residue, pattern or square_root for the row.
C7_BreachAborts ==
    \A r \in Rows :
        (/\ has_root(nonresidue)
         /\ <<"value", r>> \in assigned
         /\ ~has_root(fe_add(cells[r].value, cells[r].index)))
        => (/\ status = "panic"
            /\ <<"is_residue", r>> \notin assigned
            /\ <<"pattern", r>> \notin assigned
            /\ <<"square_root", r>> \notin assigned)

\* C8: with a genuine nonresidue, at every row a pass reaches (every value
\* of the field, every index below the length) one of sqrt(value + index)
\* and sqrt(nonresidue * (value + index)) exists, and no pass ever panics.
C8_NoAbort ==
    genuine =>
        /\ status # "panic"
        /\ InLoop =>
            is_some(first_root(cur_value, index)) \/ is_some(second_root(cur_value, index))

C8_Witness ==
    /\ genuine
    /\ status = "ok"
    /\ \E r \in written_rows :
        /\ cells[r].is_residue = 0
        /\ <<"square_root", r>> \in assigned
        /\ fe_square(cells[r].square_root)
             = fe_mul(nonresidue, fe_add(cells[r].value, cells[r].index))
        /\ cells[r].square_root # 0

\* C9: once the substrate has rejected a write, assign has returned that
\* error and no patterns, the rejected write was not made, and nothing was
\* written after it: no later write of the row, no later row, no later block.
C9_RejectionPropagates ==
    /\ status = "err" => rejected # {}
    /\ rejected # {} =>
        /\ Cardinality(rejected) = 1
        /\ status = "err"
        /\ result = {Err(e) : e \in rejected}
        /\ \A res \in result : ~res.ok
        /\ rejected \cap assigned = {}
        /\ \A e \in rejected, a \in assigned :
            \/ a[2] < e[2]
            \/ a[2] = e[2] /\ program_order(a[1]) < program_order(e[1])

C9_Witness ==
    /\ status = "err"
    /\ Len(values) = 2
    /\ Len(patterns) = 1
    /\ \E e \in rejected :
        /\ e[1] = "is_residue"
        /\ e[2] > offset
        /\ <<"value", e[2]>> \in assigned
        /\ result = {Err(e)}

block_start(k) == (k - 1) * length

\* C11: in every block assign has written, the pattern cell of the first
\* row equals the row's is_residue cell, every later row has
\* pattern = 2 * pattern of the row before + is_residue, and the pattern cell
\* of the last row is (the field element of) the pattern pushed for the
\* block, which is what assign returns for that input.
C11_Accumulation ==
    status \in {"running", "ok"} =>
        /\ \A k \in 1 .. Len(patterns) :
            /\ cells[block_start(k)].pattern = cells[block_start(k)].is_residue
            /\ \A r \in (block_start(k) + 1) .. (block_start(k) + length - 1) :
                cells[r].pattern
                  = fe_add(fe_mul(fe_from_u64(2), cells[r - 1].pattern),
                           cells[r].is_residue)
            /\ cells[block_start(k) + length - 1].pattern
                  = fe_from_u64(patterns[k])
        /\ \A r \in offset .. (row_offset - 1) :
            cells[r].pattern
              = IF r = offset THEN cells[r].is_residue
                ELSE fe_add(fe_mul(fe_from_u64(2), cells[r - 1].pattern),
                            cells[r].is_residue)
        /\ \A res \in result : res.ok /\ res.patterns = patterns

C11_Witness ==
    /\ status = "ok"
    /\ Len(values) = 2
    /\ length = U64Bits
    /\ \E res \in result :
        /\ cells[2 * length - 1].pattern = fe_from_u64(res.patterns[2])
        /\ res.patterns[1] # 0
        /\ cells[length].pattern = cells[length].is_residue
        /\ cells[length].pattern # fe_add(fe_mul(fe_from_u64(2), cells[length - 1].pattern),
                                          cells[length].is_residue)

\* the rows in which a cell or a selector has been written
rows_touched == {a[2] : a \in assigned}

\* C12: after a pass that returned Ok, the k-th value occupies exactly the
\* rows (k-1)*L .. (k-1)*L + L - 1 (k from 1), each of which holds
\* value = values[k]; len(values) * L rows are written, contiguous from row
\* 0, and no other row is written.
C12_BlockPlacement ==
    status = "ok" =>
        /\ rows_touched = 0 .. (Len(values) * length - 1)
        /\ Cardinality(rows_touched) = Len(values) * length
        /\ \A k \in 1 .. Len(values) :
            \A r \in block_start(k) .. (block_start(k) + length - 1) :
                /\ <<"value", r>> \in assigned
                /\ cells[r].value = values[k]
        /\ \A r \in Rows \ rows_touched : cells[r] = EmptyRow

C12_Witness ==
    /\ status = "ok"
    /\ Len(values) = 2
    /\ length >= 2
    /\ values[1] # values[2]
    /\ cells[length - 1].value = values[1]
    /\ cells[length].value = values[2]
    /\ rows_touched = 0 .. (2 * length - 1)
    /\ rows_touched # Rows

\* C13: on every row r assign has written (its index cell is written after
\* its selectors), the index cell is r mod L, always_enabled is enabled, and
\* index_is_nonzero is enabled exactly when r mod L is not 0; after a pass
\* that returned Ok this covers every row written.
C13_Layout ==
    /\ \A r \in Rows :
        <<"index", r>> \in assigned =>
            /\ cells[r].index = fe_from_u64(r % length)
            /\ <<"always_enabled", r>> \in assigned
            /\ cells[r].always_enabled = 1
            /\ (<<"index_is_nonzero", r>> \in assigned) <=> (r % length # 0)
            /\ (cells[r].index_is_nonzero = 1) <=> (r % length # 0)
            /\ (cells[r].index # 0) <=> (r % length # 0)
    /\ status = "ok" => \A r \in rows_touched : <<"index", r>> \in assigned

C13_Witness ==
    /\ status = "ok"
    /\ Len(values) = 2
    /\ length = U64Bits
    /\ cells[length].index_is_nonzero = 0
    /\ cells[length].always_enabled = 1
    /\ cells[length - 1].index_is_nonzero = 1
    /\ cells[2 * length - 1].index = fe_from_u64(length - 1)

\* C14: during a pass the rows are written in the order 0, 1, 2, ...: the
\* rows written so far are exactly those below the current row offset, every
\* write of a step goes to the row at the current offset, a finished row
\* moves the offset on by exactly one, and no row below the offset is
\* written again.
C14_Order ==
    /\ [](status = "running" =>
            /\ rows_touched = 0 .. (row_offset - 1)
            /\ row_offset = offset + index
            /\ offset = Len(patterns) * length)
    /\ [][status = "running" =>
            /\ assigned \subseteq assigned'
            /\ \A a \in assigned' \ assigned : a[2] = row_offset
            /\ \A r \in Rows : r < row_offset => cells'[r] = cells[r]
            /\ status' = "running" =>
                /\ row_offset' = row_offset + 1
                /\ rows_touched' = rows_touched \cup {row_offset}
            /\ status' # "running" => row_offset' = row_offset]_vars

C14_Witness ==
    /\ status = "running"
    /\ Len(values) = 2
    /\ length >= 2
    /\ row_offset = length + 1
    /\ index = 1
    /\ rows_touched = 0 .. length

\* row r with both selectors disabled
selectors_off(c, r) ==
    [c EXCEPT ![r].always_enabled = 0, ![r].index_is_nonzero = 0]

\* C15: with the index column 0, 1, ..., L-1 repeating, the gate
\* index * (value_cur - value_prev), zero on every row, makes value equal on
\* all rows of a block; it is multiplied by the index cell and by no
\* selector (it rejects a changed value with both selectors off); and on the
\* first row of a block it is zero for every value, whatever the last row of
\* the block before holds.
C15_ValueGate ==
    (status = "value_gate" /\ \A r \in Rows : gate_value(cells, r) = 0) =>
        /\ \A r \in 0 .. (row_offset - 1), s \in 0 .. (row_offset - 1) :
            (r \div length = s \div length) => cells[r].value = cells[s].value
        /\ \A r \in 1 .. (row_offset - 1), v \in FieldElems :
            (r % length # 0 /\ v # cells[r - 1].value) =>
                gate_value(selectors_off(prover_row(cells, r, v, 0, 0, 0), r), r) # 0
        /\ (row_offset % length = 0 /\ row_offset < MaxVals * length) =>
            \A v \in FieldElems :
                gate_value(prover_row(cells, row_offset, v, 0, 0, 0), row_offset) = 0

C15_Witness ==
    /\ status = "value_gate"
    /\ length >= 2
    /\ row_offset = 2 * length
    /\ cells[length - 1].value # cells[length].value
    /\ cells[length].value = cells[2 * length - 1].value
    /\ \A r \in Rows : gate_value(cells, r) = 0

\* C16: for a length of at most 64, the accumulator of assign_value after
\* index i is below 2^(i+1), so 2 * pattern + bit never exceeds 2^64 - 1 and
\* every pattern pushed is below 2^L; the same holds for the fold of
\* residue_pattern over the same value up to the same index.
C16_AccumulatorBound ==
    length <= U64Bits =>
        /\ status = "running" => pattern < 2 ^ index
        /\ InLoop =>
            LET w == witness(cur_value, index)
                f == fold_upto(cur_value, index + 1)
            IN  /\ w # {} =>
                    LET acc == pattern_update(pattern, unwrap(w)[1])
                    IN  acc < 2 ^ (index + 1) /\ acc <= 2 ^ U64Bits - 1
                /\ f < 2 ^ (index + 1)
                /\ f <= 2 ^ U64Bits - 1
        /\ \A k \in 1 .. Len(patterns) : patterns[k] < 2 ^ length

C16_Witness ==
    /\ status = "ok"
    /\ length = U64Bits
    /\ \E k \in 1 .. Len(patterns) :
        /\ patterns[k] = 2 ^ U64Bits - 1
        /\ residue_pattern(values[k]) = 2 ^ U64Bits - 1

\* C17: residue_pattern(x + 1) is residue_pattern(x) shifted left by one
\* bit with the top bit dropped, plus b, where b is 1 exactly when x + 64 has
\* a square root: residue_pattern(x + 1) = (2 * residue_pattern(x)) mod 2^64 + b.
C17_SlidingWindow ==
    \A f \in ref :
        f.i = U64Bits =>
            residue_pattern(fe_add(f.x, fe_from_u64(1)))
              = ((2 * f.acc) % (2 ^ U64Bits))
                + u64_from_bool(has_root(fe_add(f.x, fe_from_u64(U64Bits))))

C17_Witness ==
    \E f \in ref :
        /\ f.i = U64Bits
        /\ f.acc = residue_pattern(f.x)
        /\ bit(f.acc, U64Bits - 1) = 1
        /\ f.acc # 2 ^ U64Bits - 1
        /\ has_root(fe_add(f.x, fe_from_u64(U64Bits)))
        /\ residue_pattern(fe_add(f.x, fe_from_u64(1))) = 2 * f.acc - 2 ^ U64Bits + 1

====
